---- MODULE Spec2Model ----
(***************************************************************************)
(* State-machine model of the video/route synchronisation viewer           *)
(* (src/syncview/dev/svscript.js): the load handler, the YouTube player    *)
(* ready callback, the requestAnimationFrame loop syncMarker, the route    *)
(* click handler, and the pure route/time functions they call.             *)
(*                                                                         *)
(* JavaScript numbers are modelled as exact extended rationals: a record   *)
(* [n, d] with d > 0 in lowest terms, or d = 0 for the IEEE specials       *)
(* (n = 0 NaN, n = 1 +Infinity, n = -1 -Infinity).  Rounding is therefore   *)
(* abstracted away ("up to rounding" becomes equality); division by zero,  *)
(* NaN propagation and NaN comparisons behave as in the code.  Negative    *)
(* zero is not distinguished from zero.                                    *)
(***************************************************************************)
EXTENDS Integers, Sequences, FiniteSets, Bags, TLC

VARIABLES
    player,          \* svscript.js:5   [id, ready, time]; id = 0 is undefined
    map,             \* svscript.js:5   id of the Leaflet map instance; 0 is undefined
    routeCoords,     \* svscript.js:6   sequence of <<lat, lon>>
    cumulativeDist,  \* svscript.js:6   sequence of numbers
    timePoints,      \* svscript.js:6   sequence of [time, lat, lon, dist]
    landmarks,       \* svscript.js:6   sequence of [time, lat, lon, description]
    loadedData,      \* svscript.js:7   the parsed file, or NoData
    videoId,         \* svscript.js:7   "" stands for null / empty
    autoPanEnabled,  \* svscript.js:8
    initialDist,     \* svscript.js:9
    initialPos,      \* svscript.js:10
    marker,          \* svscript.js:11  [exists, pos, map]
    pendingReads,    \* bag of the files whose load handler is suspended at
                     \* `await file.text()` (svscript.js:24)
    rafPending,      \* number of syncMarker callbacks queued by requestAnimationFrame
    labelDisplay,    \* the #labelDisplay box: [opacity, innerText]
    polylineMap,     \* id of the map that carries the clickable route polyline
    loads,           \* number of load clicks so far (bounds the run)
    last             \* the handler that ran last and what it computed:
                     \* [op, t, d, note]; for syncMarker t is the video time read
                     \* and d the distance given to getPositionAtDistance, for a
                     \* route click d is the clicked distance and t the seek time

\* The screen recorder of the same page (svrec.js)
VARIABLES
    mediaRecorder,    \* svrec.js:3   index in recorders of the current one; 0 is null
    recordedChunks,   \* svrec.js:4   sequence of chunks, each the index of the
                      \* recorder whose dataavailable event pushed it
    isRecording,      \* svrec.js:6
    recorders,        \* the MediaRecorder objects made so far: the state
                      \* ("recording" or "inactive") of each
    displayPrompts,   \* calls of startScreenRecording suspended at
                      \* `await getDisplayMedia` (svrec.js:35)
    stopEvents,       \* recorders whose stop() has queued the dataavailable
                      \* and stop events, not yet delivered
    startBtnDisabled, \* svrec.js:8   #recordMapBtn
    stopBtnDisabled,  \* svrec.js:9   #stopRecordMapBtn
    statusDisplay,    \* statusDiv.style.display
    webmBlob          \* the chunks of the Blob convertToMp4 made last (svrec.js:75)

\* Right-click routing of the map page (nominatim_proxy.php)
VARIABLES
    routingWaypoints, \* nominatim_proxy.php:32  sequence of latlng
    lastRoute,        \* nominatim_proxy.php:33  the waypoints of the route; <<>> is null
    tempMarkers,      \* nominatim_proxy.php:34  latlng of each temporary marker
    mapMarkers,       \* bag of the latlng of the temporary markers on the map
    controlWaypoints, \* the waypoints routingControl was given last
    waypointsInfo,    \* waypointsInfo.textContent: the latlngs it shows; <<>> is
                      \* 'Right-click map to set start/end'
    travelTimeInfo    \* travelTimeInfo.textContent: "" or "eta"

viewerVars == <<player, map, routeCoords, cumulativeDist, timePoints, landmarks,
                loadedData, videoId, autoPanEnabled, initialDist, initialPos, marker,
                pendingReads, rafPending, labelDisplay, polylineMap, loads, last>>

recorderVars == <<mediaRecorder, recordedChunks, isRecording, recorders,
                  displayPrompts, stopEvents, startBtnDisabled, stopBtnDisabled,
                  statusDisplay, webmBlob>>

routingVars == <<routingWaypoints, lastRoute, tempMarkers, mapMarkers,
                 controlWaypoints, waypointsInfo, travelTimeInfo>>

vars == <<viewerVars, recorderVars, routingVars>>

-----------------------------------------------------------------------------
(* Bounds of the model *)

\* load clicks in one page session
MaxLoads == 2
\* largest whole video time (seconds) the player reports, and largest anchor time
MaxTime == 2
\* largest number of linkedPoints in an enumerated data file
MaxAnchors == 2
\* largest latitude of a route click
MaxCoord == 2
\* the times and distances the properties are evaluated at are the multiples
\* of 1/QueryDenom
QueryDenom == 2

-----------------------------------------------------------------------------
(* JavaScript numbers *)

NaN == [n |-> 0, d |-> 0]
PInf == [n |-> 1, d |-> 0]
NInf == [n |-> -1, d |-> 0]

Abs(k) == IF k < 0 THEN -k ELSE k
Sgn(k) == IF k < 0 THEN -1 ELSE IF k = 0 THEN 0 ELSE 1

RECURSIVE GCD(_, _)
GCD(a, b) == IF b = 0 THEN a ELSE GCD(b, a % b)

\* the rational n/d, d # 0, in lowest terms with a positive denominator
Norm(n, d) ==
    LET g == GCD(Abs(n), Abs(d))
        s == Sgn(d)
    IN  [n |-> (s * n) \div g, d |-> Abs(d) \div g]

I(k) == [n |-> k, d |-> 1]
Q(n, d) == Norm(n, d)

IsNaN(a) == a.d = 0 /\ a.n = 0
IsInf(a) == a.d = 0 /\ a.n # 0
IsFinite(a) == a.d > 0

RNeg(a) == [n |-> -a.n, d |-> a.d]

RAdd(a, b) ==
    IF IsNaN(a) \/ IsNaN(b) THEN NaN
    ELSE IF IsInf(a) /\ IsInf(b) THEN (IF a.n = b.n THEN a ELSE NaN)
    ELSE IF IsInf(a) THEN a
    ELSE IF IsInf(b) THEN b
    ELSE Norm(a.n * b.d + b.n * a.d, a.d * b.d)

RSub(a, b) == RAdd(a, RNeg(b))

RMul(a, b) ==
    IF IsNaN(a) \/ IsNaN(b) THEN NaN
    ELSE IF IsInf(a) \/ IsInf(b)
         THEN (IF a.n = 0 \/ b.n = 0 THEN NaN
               ELSE [n |-> Sgn(a.n) * Sgn(b.n), d |-> 0])
    ELSE Norm(a.n * b.n, a.d * b.d)

RDiv(a, b) ==
    IF IsNaN(a) \/ IsNaN(b) THEN NaN
    ELSE IF IsInf(a) THEN (IF IsInf(b) THEN NaN
                           ELSE IF b.n < 0 THEN RNeg(a) ELSE a)
    ELSE IF IsInf(b) THEN I(0)
    ELSE IF b.n = 0 THEN (IF a.n = 0 THEN NaN ELSE [n |-> Sgn(a.n), d |-> 0])
    ELSE Norm(a.n * b.d, a.d * b.n)

\* a < b as JavaScript evaluates it: false when either side is NaN
RLt(a, b) ==
    IF IsNaN(a) \/ IsNaN(b) THEN FALSE
    ELSE IF IsInf(a) /\ IsInf(b) THEN a.n < b.n
    ELSE IF IsInf(a) THEN a.n < 0
    ELSE IF IsInf(b) THEN b.n > 0
    ELSE a.n * b.d < b.n * a.d

RLe(a, b) ==
    IF IsNaN(a) \/ IsNaN(b) THEN FALSE
    ELSE IF IsInf(a) /\ IsInf(b) THEN a.n <= b.n
    ELSE IF IsInf(a) THEN a.n < 0
    ELSE IF IsInf(b) THEN b.n > 0
    ELSE a.n * b.d <= b.n * a.d

RGt(a, b) == RLt(b, a)
RGe(a, b) == RLe(b, a)

\* Math.abs
MathAbs(a) == [n |-> Abs(a.n), d |-> a.d]

\* Math.min / Math.max: NaN if either argument is NaN
MathMin(a, b) == IF IsNaN(a) \/ IsNaN(b) THEN NaN ELSE IF RLe(a, b) THEN a ELSE b
MathMax(a, b) == IF IsNaN(a) \/ IsNaN(b) THEN NaN ELSE IF RGe(a, b) THEN a ELSE b

\* the value of reading an element of an empty array
Undefined == <<>>

\* a <<lat, lon>> pair of whole numbers as a pair of JavaScript numbers
Pt(lat, lon) == <<I(lat), I(lon)>>


-----------------------------------------------------------------------------
(* Route/time functions (svscript.js, HELPER FUNCTIONS).  The globals they  *)
(* read are passed as parameters: rc = routeCoords, cd = cumulativeDist,    *)
(* tp = timePoints, lms = landmarks.  JavaScript index i is index i + 1     *)
(* here.                                                                    *)

\* map.distance(a, b) of the mapping library, for the axis-parallel point
\* pairs of the routes drawn here: the planar length in degrees (a positive
\* length unit; every use of cumulativeDist is a ratio or a comparison).
\* It is 0 exactly when the two points are equal.
MapDistance(a, b) ==
    RAdd(MathAbs(RSub(a[1], b[1])), MathAbs(RSub(a[2], b[2])))

\* pointToSegmentDistance(p, a, b).  The field dist holds the SQUARE of the
\* planar distance in degrees: the code's Math.sqrt(..) * 111320 is a strictly
\* increasing map of it (NaN to NaN), and dist is only ever compared with <.
\* The locals of the code are the parameters of the steps below: x, y, x1, y1
\* and A..D (svscript.js:167-169), then frac (170-171), then the offsets
\* dx = x - projX and dy = y - projY (172-173).
\* (mutant) the fraction without Math.max(0, Math.min(1, ..))
SegmentFractionUnclamped(A, B, C, D) ==
    RDiv(RAdd(RMul(A, C), RMul(B, D)), RAdd(RMul(C, C), RMul(D, D)))

SegmentFraction(A, B, C, D) ==
    MathMax(I(0), MathMin(I(1), RDiv(RAdd(RMul(A, C), RMul(B, D)),
                                     RAdd(RMul(C, C), RMul(D, D)))))

SegmentOffset(dx, dy, frac) ==
    [dist |-> RAdd(RMul(dx, dx), RMul(dy, dy)), frac |-> frac]

SegmentProjection(x, y, x1, y1, C, D, frac) ==
    SegmentOffset(RSub(x, RAdd(x1, RMul(frac, C))),
                  RSub(y, RAdd(y1, RMul(frac, D))), frac)

SegmentDistance(x, y, x1, y1, C, D) ==
    SegmentProjection(x, y, x1, y1, C, D,
                      SegmentFraction(RSub(x, x1), RSub(y, y1), C, D))

pointToSegmentDistance(p, a, b) ==
    SegmentDistance(p[2], p[1], a[2], a[1], RSub(b[2], a[2]), RSub(b[1], a[1]))

\* cumulativeDist[i-1] + d.frac * (cumulativeDist[i] - cumulativeDist[i-1])
CumAt(cd, k, frac) == RAdd(cd[k - 1], RMul(frac, RSub(cd[k], cd[k - 1])))

\* (mutant) a later segment at the same gap replaces the earlier one
NearestDistanceStepLast(cd, k, best, d) ==
    IF RLe(d.dist, best.nearestDist)
    THEN [nearestDist |-> d.dist, bestCumDist |-> CumAt(cd, k, d.frac)]
    ELSE best

\* one pass of the loop body of findNearestDistanceOnRoute, given d
NearestDistanceStep(cd, k, best, d) ==
    IF RLt(d.dist, best.nearestDist)
    THEN [nearestDist |-> d.dist, bestCumDist |-> CumAt(cd, k, d.frac)]
    ELSE best

RECURSIVE NearestDistanceScan(_, _, _, _, _)
NearestDistanceScan(rc, cd, position, k, best) ==
    IF k > Len(rc) THEN best
    ELSE NearestDistanceScan(rc, cd, position, k + 1,
             NearestDistanceStep(cd, k, best,
                 pointToSegmentDistance(position, rc[k - 1], rc[k])))

findNearestDistanceOnRoute(rc, cd, position) ==
    NearestDistanceScan(rc, cd, position, 2,
        [nearestDist |-> PInf, bestCumDist |-> I(0)]).bestCumDist

\* (mutant) the loop body with `d.dist <= nearestDist`: the last of several
\* equally near segments wins
NearestPointStepLast(cd, k, best, a, b, d) ==
    IF RLe(d.dist, best.nearestDist)
    THEN [nearestDist |-> d.dist,
          bestPoint |-> <<RAdd(a[1], RMul(d.frac, RSub(b[1], a[1]))),
                          RAdd(a[2], RMul(d.frac, RSub(b[2], a[2])))>>,
          bestCumDist |-> CumAt(cd, k, d.frac)]
    ELSE best

\* one pass of the loop body of findNearestPointOnRoute, given a, b and d
NearestPointStep(cd, k, best, a, b, d) ==
    IF RLt(d.dist, best.nearestDist)
    THEN [nearestDist |-> d.dist,
          bestPoint |-> <<RAdd(a[1], RMul(d.frac, RSub(b[1], a[1]))),
                          RAdd(a[2], RMul(d.frac, RSub(b[2], a[2])))>>,
          bestCumDist |-> CumAt(cd, k, d.frac)]
    ELSE best

RECURSIVE NearestPointScan(_, _, _, _, _)
NearestPointScan(rc, cd, position, k, best) ==
    IF k > Len(rc) THEN best
    ELSE NearestPointScan(rc, cd, position, k + 1,
             NearestPointStep(cd, k, best, rc[k - 1], rc[k],
                 pointToSegmentDistance(position, rc[k - 1], rc[k])))

\* (mutant) the gap to the route is returned in place of bestCumDist
NearestPointByGap(best) == [point |-> best.bestPoint, dist |-> best.nearestDist]

\* return { point: bestPoint, dist: bestCumDist }
NearestPoint(best) == [point |-> best.bestPoint, dist |-> best.bestCumDist]

findNearestPointOnRoute(rc, cd, position) ==
    NearestPoint(NearestPointScan(rc, cd, position, 2,
                     [nearestDist |-> PInf,
                      bestPoint |-> IF rc = <<>> THEN Undefined ELSE rc[1],
                      bestCumDist |-> I(0)]))

\* the while loop of getPositionAtDistance; i is the JavaScript index
RECURSIVE PositionScan(_, _, _)
PositionScan(cd, targetDist, i) ==
    IF i < Len(cd) /\ RLt(cd[i + 1], targetDist)
    THEN PositionScan(cd, targetDist, i + 1)
    ELSE i

\* the returned point, given a, b and segFrac
PositionInSegment(a, b, segFrac) ==
    <<RAdd(a[1], RMul(segFrac, RSub(b[1], a[1]))),
      RAdd(a[2], RMul(segFrac, RSub(b[2], a[2])))>>

\* the statements after the while loop, given the i it stopped at
PositionFrom(rc, cd, targetDist, i) ==
    IF i >= Len(cd) THEN rc[Len(rc)]
    ELSE PositionInSegment(rc[i], rc[i + 1],
             RDiv(RSub(targetDist, cd[i]), RSub(cd[i + 1], cd[i])))

getPositionAtDistance(rc, cd, targetDist) ==
    IF Len(rc) < 2 THEN (IF rc = <<>> THEN Undefined ELSE rc[1])
    ELSE PositionFrom(rc, cd, targetDist, PositionScan(cd, targetDist, 1))

\* the for loop of distanceToTime: the first k (index of `next`) whose pair
\* brackets d by distance, or 0
RECURSIVE DistanceScan(_, _, _)
DistanceScan(tp, d, k) ==
    IF k > Len(tp) THEN 0
    ELSE IF RGe(d, tp[k - 1].dist) /\ RLe(d, tp[k].dist) THEN k
    ELSE DistanceScan(tp, d, k + 1)

\* (mutant) the fraction is added to prev.time without scaling it by the
\* pair's time span
distanceToTimeUnscaled(tp, d) ==
    IF Len(tp) < 2 THEN I(0)
    ELSE LET k == DistanceScan(tp, d, 2)
         IN  IF k # 0
             THEN LET prev == tp[k - 1]
                      next == tp[k]
                      frac == RDiv(RSub(d, prev.dist), RSub(next.dist, prev.dist))
                  IN  RAdd(prev.time, frac)
             ELSE IF RLt(d, tp[1].dist) THEN tp[1].time
             ELSE IF RGt(d, tp[Len(tp)].dist) THEN tp[Len(tp)].time
             ELSE I(0)

distanceToTime(tp, d) ==
    IF Len(tp) < 2 THEN I(0)
    ELSE LET k == DistanceScan(tp, d, 2)
         IN  IF k # 0
             THEN LET prev == tp[k - 1]
                      next == tp[k]
                      frac == RDiv(RSub(d, prev.dist), RSub(next.dist, prev.dist))
                  IN  RAdd(prev.time, RMul(frac, RSub(next.time, prev.time)))
             ELSE IF RLt(d, tp[1].dist) THEN tp[1].time
             ELSE IF RGt(d, tp[Len(tp)].dist) THEN tp[Len(tp)].time
             ELSE I(0)

\* the for loop of interpolateDistanceForTime
RECURSIVE TimeScan(_, _, _)
TimeScan(tp, t, k) ==
    IF k > Len(tp) THEN 0
    ELSE IF RGe(t, tp[k - 1].time) /\ RLe(t, tp[k].time) THEN k
    ELSE TimeScan(tp, t, k + 1)

\* (mutant) the scan without the lower test `t >= prev.time`
RECURSIVE TimeScanNoLower(_, _, _)
TimeScanNoLower(tp, t, k) ==
    IF k > Len(tp) THEN 0
    ELSE IF RLe(t, tp[k].time) THEN k
    ELSE TimeScanNoLower(tp, t, k + 1)

\* (mutant) no clamp before the first and after the last anchor: the first
\* pair whose end is not before t is extrapolated
interpolateUnclamped(tp, t) ==
    IF tp = <<>> THEN [thrown |-> TRUE, val |-> NaN]
    ELSE IF Len(tp) < 2 THEN [thrown |-> FALSE, val |-> I(0)]
    ELSE LET k == TimeScanNoLower(tp, t, 2)
         IN  IF k # 0
             THEN [thrown |-> FALSE,
                   val |-> RAdd(tp[k - 1].dist,
                               RMul(RDiv(RSub(t, tp[k - 1].time),
                                         RSub(tp[k].time, tp[k - 1].time)),
                                    RSub(tp[k].dist, tp[k - 1].dist)))]
             ELSE [thrown |-> FALSE, val |-> tp[Len(tp)].dist]

\* (mutant) without the two early returns for t at or outside the first and
\* last anchor times: the scan runs for every t
interpolateNoEarlyReturn(tp, t) ==
    IF tp = <<>> THEN [thrown |-> TRUE, val |-> NaN]
    ELSE IF Len(tp) < 2 THEN [thrown |-> FALSE, val |-> I(0)]
    ELSE LET k == TimeScan(tp, t, 2)
         IN  IF k # 0
             THEN [thrown |-> FALSE,
                   val |-> RAdd(tp[k - 1].dist,
                               RMul(RDiv(RSub(t, tp[k - 1].time),
                                         RSub(tp[k].time, tp[k - 1].time)),
                                    RSub(tp[k].dist, tp[k - 1].dist)))]
             ELSE IF RLt(t, tp[1].time) THEN [thrown |-> FALSE, val |-> tp[1].dist]
             ELSE [thrown |-> FALSE, val |-> tp[Len(tp)].dist]

\* (mutant) the fraction is taken of next.time instead of the pair's time span
interpolateWrongSpan(tp, t) ==
    IF tp = <<>> THEN [thrown |-> TRUE, val |-> NaN]
    ELSE IF RLe(t, tp[1].time) THEN [thrown |-> FALSE, val |-> tp[1].dist]
    ELSE IF RGe(t, tp[Len(tp)].time) THEN [thrown |-> FALSE, val |-> tp[Len(tp)].dist]
    ELSE IF Len(tp) < 2 THEN [thrown |-> FALSE, val |-> I(0)]
    ELSE LET k == TimeScan(tp, t, 2)
         IN  IF k # 0
             THEN LET prev == tp[k - 1]
                      next == tp[k]
                      frac == RDiv(RSub(t, prev.time), next.time)
                  IN  [thrown |-> FALSE,
                       val |-> RAdd(prev.dist, RMul(frac, RSub(next.dist, prev.dist)))]
             ELSE [thrown |-> FALSE, val |-> I(0)]

\* interpolateDistanceForTime(t): [thrown, val].  With no anchors the first
\* statement reads timePoints[0].time of undefined and throws a TypeError.
interpolateDistanceForTime(tp, t) ==
    IF tp = <<>> THEN [thrown |-> TRUE, val |-> NaN]
    ELSE IF RLe(t, tp[1].time) THEN [thrown |-> FALSE, val |-> tp[1].dist]
    ELSE IF RGe(t, tp[Len(tp)].time) THEN [thrown |-> FALSE, val |-> tp[Len(tp)].dist]
    ELSE IF Len(tp) < 2 THEN [thrown |-> FALSE, val |-> I(0)]
    ELSE LET k == TimeScan(tp, t, 2)
         IN  IF k # 0
             THEN LET prev == tp[k - 1]
                      next == tp[k]
                      frac == RDiv(RSub(t, prev.time), RSub(next.time, prev.time))
                  IN  [thrown |-> FALSE,
                       val |-> RAdd(prev.dist, RMul(frac, RSub(next.dist, prev.dist)))]
             ELSE IF RLt(t, tp[1].time) THEN [thrown |-> FALSE, val |-> tp[1].dist]
             ELSE IF RGt(t, tp[Len(tp)].time)
                  THEN [thrown |-> FALSE, val |-> tp[Len(tp)].dist]
             ELSE [thrown |-> FALSE, val |-> I(0)]

\* the match threshold of updateLabel, in seconds
LabelThreshold == 2

\* (mutant) the threshold test with <= in place of <
RECURSIVE FindLandmarkInclusive(_, _, _)
FindLandmarkInclusive(lms, correctedTime, k) ==
    IF k > Len(lms) THEN 0
    ELSE IF RLe(MathAbs(RSub(lms[k].time, correctedTime)), I(LabelThreshold)) THEN k
    ELSE FindLandmarkInclusive(lms, correctedTime, k + 1)

\* landmarks.find(l => Math.abs(l.time - correctedTime) < 2): index or 0
RECURSIVE FindLandmark(_, _, _)
FindLandmark(lms, correctedTime, k) ==
    IF k > Len(lms) THEN 0
    ELSE IF RLt(MathAbs(RSub(lms[k].time, correctedTime)), I(LabelThreshold)) THEN k
    ELSE FindLandmark(lms, correctedTime, k + 1)

\* updateLabel(currentTime): the new contents of the label box
updateLabel(lms, box, currentTime) ==
    IF lms = <<>> THEN [box EXCEPT !.opacity = 0]
    ELSE LET k == FindLandmark(lms, currentTime, 1)
         IN  IF k # 0 THEN [opacity |-> 1, innerText |-> lms[k].description]
             ELSE [box EXCEPT !.opacity = 0]


-----------------------------------------------------------------------------
(* Loading (svscript.js:81-130).  A data file is the record                 *)
(*   [json, coordinates, linkedPoints, landmarks, startPosition]            *)
(* json: whether the text parses; coordinates: <<lon, lat>> pairs of        *)
(* data.geojson.features[0].geometry.coordinates; linkedPoints: records     *)
(* [time, position = <<lat, lon>>]; landmarks: records [time, lat, lon,     *)
(* description]; startPosition: <<>> when absent, else <<[lat, lon]>>.      *)
(* All numbers in a file are whole numbers.                                 *)

\* (mutant) each push is the segment's own length, not the running total
RECURSIVE CumulativeDistancesPerSegment(_, _)
CumulativeDistancesPerSegment(rc, k) ==
    IF k <= 1 THEN <<I(0)>>
    ELSE Append(CumulativeDistancesPerSegment(rc, k - 1), MapDistance(rc[k - 1], rc[k]))

\* cumulativeDist = [0]; then one push per further route point
RECURSIVE CumulativeDistances(_, _)
CumulativeDistances(rc, k) ==
    IF k <= 1 THEN <<I(0)>>
    ELSE LET cd == CumulativeDistances(rc, k - 1)
         IN  Append(cd, RAdd(cd[k - 1], MapDistance(rc[k - 1], rc[k])))

\* Array.prototype.sort with (a, b) => a.time - b.time: a stable sort
RECURSIVE InsertByTime(_, _)
InsertByTime(sorted, x) ==
    IF sorted = <<>> THEN <<x>>
    ELSE LET n == Len(sorted)
         IN  IF RGt(RSub(sorted[n].time, x.time), I(0))
             THEN Append(InsertByTime(SubSeq(sorted, 1, n - 1), x), sorted[n])
             ELSE Append(sorted, x)

RECURSIVE SortByTime(_)
SortByTime(s) ==
    IF s = <<>> THEN <<>>
    ELSE InsertByTime(SortByTime(SubSeq(s, 1, Len(s) - 1)), s[Len(s)])

\* (mutant) FIX A without the assignment of timePoints[0].time
ForceFirstAnchorDistOnly(rc, cd, tp, lms) ==
    IF Len(lms) > 0 /\ Len(tp) > 0
    THEN [tp EXCEPT ![1].dist =
            findNearestPointOnRoute(rc, cd, <<lms[1].lat, lms[1].lon>>).dist]
    ELSE tp

\* FIX A (svscript.js:107-114): timePoints[0] takes landmark[0]'s projected
\* distance and its time
ForceFirstAnchor(rc, cd, tp, lms) ==
    IF Len(lms) > 0 /\ Len(tp) > 0
    THEN LET lm0 == lms[1]
             nearest == findNearestPointOnRoute(rc, cd, <<lm0.lat, lm0.lon>>)
         IN  [tp EXCEPT ![1].dist = nearest.dist, ![1].time = lm0.time]
    ELSE tp

\* START POSITION (svscript.js:116-129): [initialPos, initialDist]
StartPosition(data, rc, cd, tp, lms) ==
    IF data.startPosition # <<>>
    THEN LET pos == <<I(data.startPosition[1].lat), I(data.startPosition[1].lon)>>
         IN  [initialPos |-> pos, initialDist |-> findNearestDistanceOnRoute(rc, cd, pos)]
    ELSE IF Len(lms) > 0
    THEN LET pos == <<lms[1].lat, lms[1].lon>>
         IN  [initialPos |-> pos, initialDist |-> findNearestDistanceOnRoute(rc, cd, pos)]
    ELSE IF Len(tp) > 0
    THEN [initialPos |-> <<tp[1].lat, tp[1].lon>>, initialDist |-> tp[1].dist]
    ELSE [initialPos |-> IF rc = <<>> THEN Undefined ELSE rc[1], initialDist |-> I(0)]

\* routeCoords = coords.map(c => [c[1], c[0]])
RouteOf(coords) == [i \in 1..Len(coords) |-> <<I(coords[i][2]), I(coords[i][1])>>]

\* one element of data.linkedPoints.map(..), given its time and position
LinkedPoint(rc, cd, time, pos) ==
    [time |-> time, lat |-> pos[1], lon |-> pos[2],
     dist |-> findNearestDistanceOnRoute(rc, cd, pos)]

\* timePoints = data.linkedPoints.map(..)
LinkedPoints(linkedPoints, rc, cd) ==
    [i \in 1..Len(linkedPoints) |->
        LinkedPoint(rc, cd, I(linkedPoints[i].time),
                    <<I(linkedPoints[i].position[1]), I(linkedPoints[i].position[2])>>)]

\* landmarks = data.landmarks || []
LandmarksOf(lms) ==
    [i \in 1..Len(lms) |->
        [time |-> I(lms[i].time), lat |-> I(lms[i].lat), lon |-> I(lms[i].lon),
         description |-> lms[i].description]]

\* the globals as loadData leaves them
Loaded(rc, cd, tp, lms, start) ==
    [routeCoords |-> rc, cumulativeDist |-> cd, timePoints |-> tp,
     landmarks |-> lms, initialPos |-> start.initialPos,
     initialDist |-> start.initialDist]

\* loadData from the START POSITION block on, given the tables
LoadStart(data, rc, cd, tp, lms) ==
    Loaded(rc, cd, tp, lms, StartPosition(data, rc, cd, tp, lms))

\* loadData from the linkedPoints block on, given the route and its
\* cumulative distances
LoadAnchors(data, rc, cd, lms) ==
    LoadStart(data, rc, cd,
        ForceFirstAnchor(rc, cd, SortByTime(LinkedPoints(data.linkedPoints, rc, cd)), lms),
        lms)

\* loadData from the cumulative distances on, given the route
LoadRoute(data, rc) ==
    LoadAnchors(data, rc, CumulativeDistances(rc, Len(rc)), LandmarksOf(data.landmarks))

\* loadData(data): the new values of the globals it assigns
loadData(data) == LoadRoute(data, RouteOf(data.coordinates))


-----------------------------------------------------------------------------
(* Inputs *)

NoData == [json |-> FALSE, coordinates |-> <<>>, linkedPoints |-> <<>>,
           landmarks |-> <<>>, startPosition |-> <<>>]

File(coordinates, linkedPoints, lms, startPosition) ==
    [json |-> TRUE, coordinates |-> coordinates, linkedPoints |-> linkedPoints,
     landmarks |-> lms, startPosition |-> startPosition]

LP(time, lat, lon) == [time |-> time, position |-> <<lat, lon>>]
LM(time, lat, lon, description) ==
    [time |-> time, lat |-> lat, lon |-> lon, description |-> description]

\* <<lon, lat>> pairs: a straight track north along lon = 0, and a track with a
\* right-angle bend
RouteLine == << <<0, 0>>, <<0, 1>>, <<0, 2>> >>
RouteBend == << <<0, 0>>, <<2, 0>>, <<2, 2>> >>

\* The files of a page session: anchors with and without landmarks, a start
\* position, no anchors at all, a one-point route, and a file that is not JSON.
FileA == File(RouteLine, <<LP(0, 0, 0), LP(2, 2, 0)>>, <<>>, <<>>)
FileB == File(RouteBend, <<LP(3, 1, 2), LP(1, 0, 1)>>,
              <<LM(2, 0, 1, "Gate"), LM(3, 2, 2, "Depot")>>,
              <<[lat |-> 0, lon |-> 0]>>)
FileC == File(RouteLine, <<>>, <<LM(1, 1, 0, "Bridge")>>, <<>>)
FileD == File(RouteLine, <<LP(0, 0, 0), LP(2, 2, 0)>>, <<>>, <<[lat |-> 1, lon |-> 0]>>)
FileE == File(<< <<1, 1>> >>, <<LP(1, 1, 1)>>, <<>>, <<>>)
FileBad == [NoData EXCEPT !.json = FALSE]

SessionFiles == {FileA, FileB, FileC, FileD, FileE, FileBad}

\* The enumerated files of the route/time engine: every list of at most
\* MaxAnchors linkedPoints, in any order, with times 0..MaxTime at positions on
\* and beside the straight track, with no landmark or one landmark.
AnchorPositions == {<<0, 0>>, <<2, 0>>}
AnchorSamples == {LP(t, p[1], p[2]) : t \in 0..MaxTime, p \in AnchorPositions}
SeqsUpTo(S, n) == UNION {[1..k -> S] : k \in 0..n}
LandmarkLists == {<<>>} \cup {<<LM(t, 1, 0, "Bridge")>> : t \in 0..MaxTime}
EngineFiles ==
    {File(RouteLine, lp, lms, <<>>) : lp \in SeqsUpTo(AnchorSamples, MaxAnchors),
                                      lms \in LandmarkLists}

\* the text of #videoIdInput after trim()
VideoIds == {"", "vidA"}

\* e.latlng of a click on the route polyline
ClickPoints == {Pt(lat, lon) : lat \in 0..MaxCoord, lon \in 0..1}

-----------------------------------------------------------------------------
(* The page *)

NoMarker == [exists |-> FALSE, pos |-> Undefined, map |-> 0]
Did(op, t, d, note) == [op |-> op, t |-> t, d |-> d, note |-> note]

Init ==
    /\ player = [id |-> 0, ready |-> FALSE, time |-> I(0)]
    /\ map = 0
    /\ routeCoords = <<>>
    /\ cumulativeDist = <<>>
    /\ timePoints = <<>>
    /\ landmarks = <<>>
    /\ loadedData = NoData
    /\ videoId = ""
    /\ autoPanEnabled = TRUE
    /\ initialDist = I(0)
    /\ initialPos = Undefined
    /\ marker = NoMarker
    /\ pendingReads = EmptyBag
    /\ rafPending = 0
    /\ labelDisplay = [opacity |-> 0, innerText |-> ""]
    /\ polylineMap = 0
    /\ loads = 0
    /\ last = Did("init", NaN, NaN, "")
    /\ mediaRecorder = 0
    /\ recordedChunks = <<>>
    /\ isRecording = FALSE
    /\ recorders = <<>>
    /\ displayPrompts = 0
    /\ stopEvents = {}
    /\ startBtnDisabled = FALSE
    /\ stopBtnDisabled = FALSE
    /\ statusDisplay = "none"
    /\ webmBlob = <<>>
    /\ routingWaypoints = <<>>
    /\ lastRoute = <<>>
    /\ tempMarkers = <<>>
    /\ mapMarkers = EmptyBag
    /\ controlWaypoints = <<>>
    /\ waypointsInfo = <<>>
    /\ travelTimeInfo = ""

tables == <<routeCoords, cumulativeDist, timePoints, landmarks>>

\* loadBtn click with no file selected (svscript.js:19): alert and return
LoadClickNoFile ==
    /\ loads < MaxLoads
    /\ loads' = loads + 1
    /\ last' = Did("loadBtn", NaN, NaN, "no file")
    /\ UNCHANGED <<player, map, tables, loadedData, videoId, autoPanEnabled,
                   initialDist, initialPos, marker, pendingReads, rafPending,
                   labelDisplay, polylineMap>>
    /\ UNCHANGED <<recorderVars, routingVars>>

\* loadBtn click up to `await file.text()` (svscript.js:15-24): videoId is
\* assigned before it is tested
LoadClick(f, vid) ==
    /\ loads < MaxLoads
    /\ loads' = loads + 1
    /\ videoId' = vid
    /\ IF vid = ""
       THEN /\ pendingReads' = pendingReads
            /\ last' = Did("loadBtn", NaN, NaN, "no video id")
       ELSE /\ pendingReads' = pendingReads (+) SetToBag({f})
            /\ last' = Did("loadBtn", NaN, NaN, "reading")
    /\ UNCHANGED <<player, map, tables, loadedData, autoPanEnabled, initialDist,
                   initialPos, marker, rafPending, labelDisplay, polylineMap>>
    /\ UNCHANGED <<recorderVars, routingVars>>

\* the rest of the click handler once the file text has arrived
\* (svscript.js:25-35), run to completion: JSON.parse, map.remove(), the four
\* resets, initMap, loadData, loadYouTubePlayer
\* (mutant) the handler without the `timePoints = []` reset and loadData
\* assigning timePoints only when the file has linkedPoints
ParsedKeepingAnchors(f, new) ==
    IF ~f.json
    THEN /\ last' = Did("loadBtn", NaN, NaN, "JSON.parse threw")
         /\ UNCHANGED <<player, map, tables, loadedData, initialDist, initialPos>>
    ELSE /\ loadedData' = f
         /\ map' = map + 1
         /\ routeCoords' = new.routeCoords
         /\ cumulativeDist' = new.cumulativeDist
         /\ timePoints' = IF new.timePoints = <<>> THEN timePoints ELSE new.timePoints
         /\ landmarks' = new.landmarks
         /\ initialPos' = new.initialPos
         /\ initialDist' = new.initialDist
         /\ player' = [id |-> player.id + 1, ready |-> FALSE, time |-> I(0)]
         /\ last' = Did("loadBtn", NaN, NaN, "loaded")

\* (mutant) the four resets run before JSON.parse
ParsedAfterReset(f, new) ==
    IF ~f.json
    THEN /\ routeCoords' = <<>>
         /\ cumulativeDist' = <<>>
         /\ timePoints' = <<>>
         /\ landmarks' = <<>>
         /\ last' = Did("loadBtn", NaN, NaN, "JSON.parse threw")
         /\ UNCHANGED <<player, map, loadedData, initialDist, initialPos>>
    ELSE /\ loadedData' = f
         /\ map' = map + 1
         /\ routeCoords' = new.routeCoords
         /\ cumulativeDist' = new.cumulativeDist
         /\ timePoints' = new.timePoints
         /\ landmarks' = new.landmarks
         /\ initialPos' = new.initialPos
         /\ initialDist' = new.initialDist
         /\ player' = [id |-> player.id + 1, ready |-> FALSE, time |-> I(0)]
         /\ last' = Did("loadBtn", NaN, NaN, "loaded")

Parsed(f, new) ==
    IF ~f.json
    THEN /\ last' = Did("loadBtn", NaN, NaN, "JSON.parse threw")
         /\ UNCHANGED <<player, map, tables, loadedData, initialDist, initialPos>>
    ELSE /\ loadedData' = f
         /\ map' = map + 1
         /\ routeCoords' = new.routeCoords
         /\ cumulativeDist' = new.cumulativeDist
         /\ timePoints' = new.timePoints
         /\ landmarks' = new.landmarks
         /\ initialPos' = new.initialPos
         /\ initialDist' = new.initialDist
         /\ player' = [id |-> player.id + 1, ready |-> FALSE, time |-> I(0)]
         /\ last' = Did("loadBtn", NaN, NaN, "loaded")

LoadResume(f) ==
    /\ BagIn(f, pendingReads)
    /\ pendingReads' = pendingReads (-) SetToBag({f})
    /\ Parsed(f, loadData(f))
    /\ UNCHANGED <<videoId, autoPanEnabled, marker, rafPending, labelDisplay,
                   polylineMap, loads>>
    /\ UNCHANGED <<recorderVars, routingVars>>

\* (mutant) the start point's distance is taken as the start of the route
\* instead of its projection on the route
StartPointAtRouteStart(rc, cd, lms) ==
    IF Len(lms) > 0
    THEN [startPoint |-> <<lms[1].lat, lms[1].lon>>, initialDist |-> I(0)]
    ELSE [startPoint |-> IF rc = <<>> THEN Undefined ELSE rc[1], initialDist |-> I(0)]

\* setupVisualization (svscript.js:251-263): [startPoint, initialDist]
StartPoint(rc, cd, lms) ==
    IF Len(lms) > 0
    THEN LET startPoint == <<lms[1].lat, lms[1].lon>>
         IN  [startPoint |-> startPoint,
              initialDist |-> findNearestPointOnRoute(rc, cd, startPoint).dist]
    ELSE [startPoint |-> IF rc = <<>> THEN Undefined ELSE rc[1], initialDist |-> I(0)]

\* CREATE OR RESET MARKER (svscript.js:265-270)
PlaceMarker(m, startPoint, mapId) ==
    IF ~m.exists THEN [exists |-> TRUE, pos |-> startPoint, map |-> mapId]
    ELSE [m EXCEPT !.pos = startPoint]

\* setupVisualization (svscript.js:221-274), given its start point
setupVisualization(sp) ==
    /\ initialDist' = sp.initialDist
    /\ marker' = PlaceMarker(marker, sp.startPoint, map)
    /\ polylineMap' = map

\* onPlayerReady of the current player (svscript.js:50-70): setupVisualization,
\* updateLabel, and one more requestAnimationFrame(syncMarker)
PlayerReady ==
    /\ player.id # 0
    /\ ~player.ready
    /\ player' = [player EXCEPT !.ready = TRUE]
    /\ setupVisualization(StartPoint(routeCoords, cumulativeDist, landmarks))
    /\ labelDisplay' = updateLabel(landmarks, labelDisplay, player.time)
    /\ rafPending' = rafPending + 1
    /\ last' = Did("onPlayerReady", NaN, NaN, "")
    /\ UNCHANGED <<map, tables, loadedData, videoId, autoPanEnabled, initialPos,
                   pendingReads, loads>>
    /\ UNCHANGED <<recorderVars, routingVars>>

\* the distance syncMarker places the marker at (svscript.js:289-294):
\* [held, thrown, val]; every landmark time drawn here is a number
FrameDistance(tp, lms, initDist, t) ==
    IF Len(lms) > 0 /\ RLt(t, lms[1].time)
    THEN [held |-> TRUE, thrown |-> FALSE, val |-> initDist]
    ELSE LET r == interpolateDistanceForTime(tp, t)
         IN  [held |-> FALSE, thrown |-> r.thrown, val |-> r.val]

\* the body of syncMarker past its guard, given the time read and the
\* distance computed (svscript.js:285-304)
PlaceAt(t, fd) ==
    IF fd.thrown
    THEN /\ rafPending' = rafPending - 1
         /\ last' = Did("syncMarker", t, NaN, "threw")
         /\ UNCHANGED <<marker, labelDisplay>>
    ELSE /\ marker' = [marker EXCEPT !.pos =
                getPositionAtDistance(routeCoords, cumulativeDist, fd.val)]
         /\ labelDisplay' = updateLabel(landmarks, labelDisplay, t)
         /\ last' = Did("syncMarker", t, fd.val,
                        IF fd.held THEN "held" ELSE "interpolated")
         /\ UNCHANGED rafPending

\* one queued syncMarker callback runs (svscript.js:279-305).  When the
\* current player is not ready yet, this is the outcome in which
\* player.getCurrentTime() returns (the new video's time, 0)
SyncFrame ==
    /\ rafPending > 0
    /\ IF player.id = 0 \/ ~marker.exists \/ routeCoords = <<>>
       THEN /\ last' = Did("syncMarker", NaN, NaN, "idle")
            /\ UNCHANGED <<marker, labelDisplay, rafPending>>
       ELSE PlaceAt(player.time,
                    FrameDistance(timePoints, landmarks, initialDist, player.time))
    /\ UNCHANGED <<player, map, tables, loadedData, videoId, autoPanEnabled,
                   initialDist, initialPos, pendingReads, polylineMap, loads>>
    /\ UNCHANGED <<recorderVars, routingVars>>

\* a queued syncMarker callback runs while the new player is not ready yet:
\* the other outcome, in which player.getCurrentTime is not yet callable, the
\* call throws, and the callback ends without queueing its successor
SyncFrameNotReady ==
    /\ rafPending > 0
    /\ player.id # 0 /\ marker.exists /\ routeCoords # <<>>
    /\ ~player.ready
    /\ rafPending' = rafPending - 1
    /\ last' = Did("syncMarker", NaN, NaN, "getCurrentTime threw")
    /\ UNCHANGED <<player, map, tables, loadedData, videoId, autoPanEnabled,
                   initialDist, initialPos, marker, pendingReads, labelDisplay,
                   polylineMap, loads>>
    /\ UNCHANGED <<recorderVars, routingVars>>

\* the body of the click handler, given the nearest route point: a seek to a
\* non-finite time leaves the player's time as it is
SeekAt(nearest, t) ==
    /\ marker' = [marker EXCEPT !.pos = nearest.point]
    /\ player' = [player EXCEPT !.time = IF IsFinite(t) THEN t ELSE @]
    /\ last' = Did("routeClick", t, nearest.dist, "")

SeekTo(nearest) == SeekAt(nearest, distanceToTime(timePoints, nearest.dist))

\* (mutant) the click handler also records the clicked point as an anchor at
\* the current video time
RouteClickRecording(p) ==
    /\ map # 0 /\ polylineMap = map
    /\ Len(routeCoords) >= 2
    /\ SeekTo(findNearestPointOnRoute(routeCoords, cumulativeDist, p))
    /\ timePoints' = Append(timePoints, [time |-> player.time, lat |-> p[1],
                                         lon |-> p[2], dist |-> I(0)])
    /\ UNCHANGED <<map, routeCoords, cumulativeDist, landmarks, loadedData, videoId,
                   autoPanEnabled, initialDist, initialPos, pendingReads,
                   rafPending, labelDisplay, polylineMap, loads>>
    /\ UNCHANGED <<recorderVars, routingVars>>

\* click on the route polyline of the displayed map (svscript.js:236-241)
RouteClick(p) ==
    /\ map # 0 /\ polylineMap = map
    /\ Len(routeCoords) >= 2
    /\ SeekTo(findNearestPointOnRoute(routeCoords, cumulativeDist, p))
    /\ UNCHANGED <<map, tables, loadedData, videoId, autoPanEnabled, initialDist,
                   initialPos, pendingReads, rafPending, labelDisplay, polylineMap,
                   loads>>
    /\ UNCHANGED <<recorderVars, routingVars>>

\* the video plays on, or the user scrubs it: the ready player's current time
\* becomes t
VideoTime(t) ==
    /\ player.ready
    /\ player.time # I(t)
    /\ player' = [player EXCEPT !.time = I(t)]
    /\ last' = Did("video", NaN, NaN, "")
    /\ UNCHANGED <<map, tables, loadedData, videoId, autoPanEnabled, initialDist,
                   initialPos, marker, pendingReads, rafPending, labelDisplay,
                   polylineMap, loads>>
    /\ UNCHANGED <<recorderVars, routingVars>>

\* onStateChange listener (svscript.js:63-69).  autoPanEnabled only decides
\* whether syncMarker pans the map view, which is not part of the state here;
\* the playback specification below takes this action.
PlayerStateChange(playing) ==
    /\ player.ready
    /\ autoPanEnabled # playing
    /\ autoPanEnabled' = playing
    /\ last' = Did("onStateChange", NaN, NaN, "")
    /\ UNCHANGED <<player, map, tables, loadedData, videoId, initialDist,
                   initialPos, marker, pendingReads, rafPending, labelDisplay,
                   polylineMap, loads>>
    /\ UNCHANGED <<recorderVars, routingVars>>

SessionLoadClick == \E f \in SessionFiles, vid \in VideoIds : LoadClick(f, vid)
Resume == \E f \in BagToSet(pendingReads) : LoadResume(f)
Click == \E p \in ClickPoints : RouteClick(p)
Video == \E t \in 0..MaxTime : VideoTime(t)
StateChange == \E playing \in BOOLEAN : PlayerStateChange(playing)

Next ==
    \/ LoadClickNoFile
    \/ SessionLoadClick
    \/ Resume
    \/ PlayerReady
    \/ SyncFrame
    \/ SyncFrameNotReady
    \/ Click
    \/ Video

Spec == Init /\ [][Next]_vars

\* One load of an enumerated file, then frames and route clicks
EngineLoadClick == loads = 0 /\ \E f \in EngineFiles : LoadClick(f, "vidA")

EngineNext ==
    \/ EngineLoadClick
    \/ Resume
    \/ PlayerReady
    \/ SyncFrame
    \/ Click

EngineSpec == Init /\ [][EngineNext]_vars

\* The enumerated routes of the route geometry: every list of at most
\* MaxRoutePoints <<lon, lat>> points of a unit corner whose consecutive points
\* are equal (a zero-length segment) or differ in one coordinate, the empty
\* route and the one-point routes included; two anchors, at the corner's ends.
MaxRoutePoints == 3
RoutePoints == {<<0, 0>>, <<0, 1>>, <<1, 1>>}
AxisParallel(r) == \A i \in 2..Len(r) : r[i - 1][1] = r[i][1] \/ r[i - 1][2] = r[i][2]
Routes == {r \in SeqsUpTo(RoutePoints, MaxRoutePoints) : AxisParallel(r)}
RouteFiles == {File(r, <<LP(0, 0, 0), LP(2, 1, 1)>>, <<>>, <<>>) : r \in Routes}

\* One load of a file with an enumerated route, then frames and route clicks
RouteLoadClick == loads = 0 /\ \E f \in RouteFiles : LoadClick(f, "vidA")

RouteNext ==
    \/ RouteLoadClick
    \/ Resume
    \/ PlayerReady
    \/ SyncFrame
    \/ Click

RouteSpec == Init /\ [][RouteNext]_vars

\* Playback of two well-formed files: loads, frames, route clicks, video time
\* and the player's play/pause events
PlaybackFiles == {FileA, FileB}
PlaybackLoadClick == \E f \in PlaybackFiles : LoadClick(f, "vidA")

PlaybackNext ==
    \/ PlaybackLoadClick
    \/ Resume
    \/ PlayerReady
    \/ SyncFrame
    \/ SyncFrameNotReady
    \/ Click
    \/ Video
    \/ StateChange

PlaybackSpec == Init /\ [][PlaybackNext]_vars

\* Anchor lists with duplicate times and a landmark: four anchors at times
\* 0, 0, 0, 3 whose first time the override raises to 1 (so the list is no
\* longer sorted), and three anchors at times 0, 2, 2 with the landmark at 0
FileF == File(RouteLine, <<LP(0, 0, 0), LP(0, 1, 0), LP(0, 1, 0), LP(3, 2, 0)>>,
              <<LM(1, 0, 0, "Start")>>, <<>>)
FileG == File(RouteLine, <<LP(0, 0, 0), LP(2, 1, 0), LP(2, 2, 0)>>,
              <<LM(0, 0, 0, "Start")>>, <<>>)
AnchorFiles == {FileB, FileF, FileG}

\* One load of such a file (or of FileB, whose startPosition and landmark
\* project to different distances), then frames, route clicks, video time and
\* player state changes
AnchorLoadClick == loads = 0 /\ \E f \in AnchorFiles : LoadClick(f, "vidA")

AnchorNext ==
    \/ AnchorLoadClick
    \/ Resume
    \/ PlayerReady
    \/ SyncFrame
    \/ Click
    \/ Video
    \/ StateChange

AnchorSpec == Init /\ [][AnchorNext]_vars

-----------------------------------------------------------------------------
(* The screen recorder (svrec.js) *)

\* MediaRecorder objects made in one page session
MaxRecorders == 3
\* calls of startScreenRecording suspended at the getDisplayMedia prompt
MaxPrompts == 2
\* e.data.size of a dataavailable event: empty or not
ChunkSizes == {0, 1}

Recording == {r \in DOMAIN recorders : recorders[r] = "recording"}

\* click on #recordMapBtn: startScreenRecording up to `await getDisplayMedia`
\* (svrec.js:33-38); a disabled button gets no click
startScreenRecording ==
    /\ ~startBtnDisabled
    /\ displayPrompts < MaxPrompts
    /\ displayPrompts' = displayPrompts + 1
    /\ UNCHANGED <<mediaRecorder, recordedChunks, isRecording, recorders, stopEvents,
                   startBtnDisabled, stopBtnDisabled, statusDisplay, webmBlob>>
    /\ UNCHANGED <<viewerVars, routingVars>>

\* the user grants a prompt: the rest of startScreenRecording (svrec.js:40-57)
startScreenRecordingResume ==
    /\ displayPrompts > 0
    /\ Len(recorders) < MaxRecorders
    /\ displayPrompts' = displayPrompts - 1
    /\ recorders' = Append(recorders, "recording")
    /\ mediaRecorder' = Len(recorders) + 1
    /\ recordedChunks' = <<>>
    /\ isRecording' = TRUE
    /\ statusDisplay' = "block"
    /\ startBtnDisabled' = TRUE
    /\ stopBtnDisabled' = FALSE
    /\ UNCHANGED <<stopEvents, webmBlob>>
    /\ UNCHANGED <<viewerVars, routingVars>>

\* the user cancels a prompt, or capture fails: the catch block (svrec.js:58-60)
startScreenRecordingCatch ==
    /\ displayPrompts > 0
    /\ displayPrompts' = displayPrompts - 1
    /\ UNCHANGED <<mediaRecorder, recordedChunks, isRecording, recorders, stopEvents,
                   startBtnDisabled, stopBtnDisabled, statusDisplay, webmBlob>>
    /\ UNCHANGED <<viewerVars, routingVars>>

\* click on #stopRecordMapBtn: stopScreenRecording (svrec.js:63-70);
\* mediaRecorder.stop() makes the recorder inactive and queues its
\* dataavailable and stop events
stopScreenRecording ==
    /\ ~stopBtnDisabled
    /\ isRecording
    /\ recorders' = [recorders EXCEPT ![mediaRecorder] = "inactive"]
    /\ stopEvents' = stopEvents \cup {mediaRecorder}
    /\ isRecording' = FALSE
    /\ statusDisplay' = "none"
    /\ startBtnDisabled' = FALSE
    /\ stopBtnDisabled' = TRUE
    /\ UNCHANGED <<mediaRecorder, recordedChunks, displayPrompts, webmBlob>>
    /\ UNCHANGED <<viewerVars, routingVars>>

\* the same click while isRecording is false: the early return (svrec.js:64)
stopScreenRecordingIdle ==
    /\ ~stopBtnDisabled
    /\ ~isRecording
    /\ UNCHANGED vars

\* mediaRecorder.ondataavailable (svrec.js:43-45): the push goes to the array
\* the global recordedChunks names when the event is delivered
ondataavailable(chunks, r, size) == IF size > 0 THEN Append(chunks, r) ELSE chunks

\* convertToMp4 up to its first await (svrec.js:73-84), given recordedChunks
convertToMp4(chunks) ==
    /\ recordedChunks' = chunks
    /\ webmBlob' = chunks
    /\ statusDisplay' = "block"

\* the events queued by stop() are delivered to recorder r: ondataavailable,
\* then onstop = convertToMp4
RecorderStopped(r, size) ==
    /\ r \in stopEvents
    /\ stopEvents' = stopEvents \ {r}
    /\ convertToMp4(ondataavailable(recordedChunks, r, size))
    /\ UNCHANGED <<mediaRecorder, isRecording, recorders, displayPrompts,
                   startBtnDisabled, stopBtnDisabled>>
    /\ UNCHANGED <<viewerVars, routingVars>>

StopEvents == \E r \in stopEvents, size \in ChunkSizes : RecorderStopped(r, size)

RecorderNext ==
    \/ startScreenRecording
    \/ startScreenRecordingResume
    \/ startScreenRecordingCatch
    \/ stopScreenRecording
    \/ stopScreenRecordingIdle
    \/ StopEvents

RecorderSpec == Init /\ [][RecorderNext]_vars

-----------------------------------------------------------------------------
(* Right-click routing (nominatim_proxy.php) *)

\* e.latlng of a right-click: MaxLatLng + 1 places on the map
MaxLatLng == 2
LatLngs == {<<lat, 0>> : lat \in 0..MaxLatLng}

RECURSIVE BagOfSeq(_)
BagOfSeq(q) == IF q = <<>> THEN EmptyBag ELSE SetToBag({Head(q)}) (+) BagOfSeq(Tail(q))

\* (mutant) addRoutingWaypoint without the reset of routingWaypoints
WaypointsKept(wps) == wps

\* routingWaypoints before the push (nominatim_proxy.php:85-86)
WaypointsBeforePush(wps) == IF Len(wps) >= 2 THEN <<>> ELSE wps

\* the block run when two waypoints are already set
\* (nominatim_proxy.php:85-94), without the reset of routingWaypoints itself
ResetWhenFull ==
    IF Len(routingWaypoints) >= 2
    THEN [control |-> <<>>, onMap |-> mapMarkers (-) BagOfSeq(tempMarkers),
          temp |-> <<>>, info |-> <<>>, travel |-> ""]
    ELSE [control |-> controlWaypoints, onMap |-> mapMarkers, temp |-> tempMarkers,
          info |-> waypointsInfo, travel |-> travelTimeInfo]

\* the push and the two blocks after it (nominatim_proxy.php:97-114), given
\* the waypoints after the push and the rest of the state after the reset
AfterPush(latlng, wps, st) ==
    /\ routingWaypoints' = wps
    /\ travelTimeInfo' = st.travel
    /\ IF Len(wps) = 1
       THEN /\ mapMarkers' = st.onMap (+) SetToBag({latlng})
            /\ tempMarkers' = Append(st.temp, latlng)
            /\ waypointsInfo' = <<latlng>>
            /\ controlWaypoints' = st.control
       ELSE IF Len(wps) = 2
       THEN /\ controlWaypoints' = wps
            /\ mapMarkers' = st.onMap (-) BagOfSeq(st.temp)
            /\ tempMarkers' = <<>>
            /\ waypointsInfo' = Append(st.info, wps[2])
       ELSE /\ controlWaypoints' = st.control
            /\ mapMarkers' = st.onMap
            /\ tempMarkers' = st.temp
            /\ waypointsInfo' = st.info

\* map.on('contextmenu'): addRoutingWaypoint(e.latlng) (nominatim_proxy.php:84-115)
addRoutingWaypoint(latlng) ==
    /\ AfterPush(latlng, Append(WaypointsBeforePush(routingWaypoints), latlng),
                 ResetWhenFull)
    /\ UNCHANGED lastRoute
    /\ UNCHANGED <<viewerVars, recorderVars>>

\* click on #clearAllRoutesBtn (nominatim_proxy.php:151-165)
ClearAllRoutes ==
    /\ routingWaypoints' = <<>>
    /\ controlWaypoints' = <<>>
    /\ lastRoute' = <<>>
    /\ mapMarkers' = mapMarkers (-) BagOfSeq(tempMarkers)
    /\ tempMarkers' = <<>>
    /\ waypointsInfo' = <<>>
    /\ travelTimeInfo' = ""
    /\ UNCHANGED <<viewerVars, recorderVars>>

\* routingControl's 'routesfound' event for the waypoints it holds
\* (nominatim_proxy.php:138-142): lastRoute and the travel time text
RoutesFound ==
    /\ Len(controlWaypoints) = 2
    /\ lastRoute' = controlWaypoints
    /\ travelTimeInfo' = "eta"
    /\ UNCHANGED <<routingWaypoints, tempMarkers, mapMarkers, controlWaypoints,
                   waypointsInfo>>
    /\ UNCHANGED <<viewerVars, recorderVars>>

\* input on the speed slider (nominatim_proxy.php:122-125)
SpeedInput ==
    /\ travelTimeInfo' = IF lastRoute # <<>> THEN "eta" ELSE travelTimeInfo
    /\ UNCHANGED <<routingWaypoints, lastRoute, tempMarkers, mapMarkers,
                   controlWaypoints, waypointsInfo>>
    /\ UNCHANGED <<viewerVars, recorderVars>>

ContextMenu == \E latlng \in LatLngs : addRoutingWaypoint(latlng)

RoutingNext ==
    \/ ContextMenu
    \/ ClearAllRoutes
    \/ RoutesFound
    \/ SpeedInput

RoutingSpec == Init /\ [][RoutingNext]_vars


-----------------------------------------------------------------------------
(* Properties *)

QueryTimes == {Q(k, QueryDenom) : k \in (-QueryDenom)..((MaxTime + 1) * QueryDenom)}
QueryDists == {Q(k, QueryDenom) : k \in (-QueryDenom)..((MaxCoord + 1) * QueryDenom)}

SortedByTime(tp) ==
    \A i, j \in 1..Len(tp) : i < j => RLe(tp[i].time, tp[j].time)
IncreasingTimes(tp) ==
    \A i \in 2..Len(tp) : RLt(tp[i - 1].time, tp[i].time)
IncreasingDists(tp) ==
    \A i \in 2..Len(tp) : RLt(tp[i - 1].dist, tp[i].dist)

\* a syncMarker call that got past its guard and placed the marker
Placed == last.op = "syncMarker" /\ last.note \in {"held", "interpolated"}

\* C1: after every completed load (first-anchor override included) timePoints
\* is sorted in ascending order of time.
C1_AnchorsSortedByTime == SortedByTime(timePoints)

\* C2: with no anchors loaded, a syncMarker call that asks
\* interpolateDistanceForTime gets 0 and does not throw, and a route click's
\* distanceToTime is 0.
C2_EmptyAnchorsGiveZero ==
    timePoints = <<>> =>
        /\ last.op = "syncMarker" /\ last.note # "held" /\ last.note # "idle"
             /\ last.note # "getCurrentTime threw"
             => last.note = "interpolated" /\ last.d = I(0)
        /\ last.op = "routeClick" => last.t = I(0)

\* the tables of every parseable file of the session, as loadData leaves them
TablesOf(new) ==
    <<new.routeCoords, new.cumulativeDist, new.timePoints, new.landmarks>>
SessionTables == {TablesOf(loadData(f)) : f \in {g \in SessionFiles : g.json}}

\* C3: in every state a frame or a route click can observe, routeCoords,
\* cumulativeDist, timePoints and landmarks are all in the reset state or are
\* all those of one and the same loaded file.
C3_TablesFromOneFile ==
    \/ tables = <<<<>>, <<>>, <<>>, <<>>>>
    \/ tables \in SessionTables

\* C3 witness: after two completed loads, each followed by player ready, a
\* frame placed the marker from the tables of the second file
C3_Witness ==
    /\ Placed
    /\ map = 2
    /\ rafPending = 2
    /\ loadedData = FileC
    /\ tables = TablesOf(loadData(FileC))

\* C4: at most one syncMarker callback is queued per frame.
C4_SingleSyncLoop == rafPending <= 1

\* C5: in every syncMarker call that places the marker while a landmark
\* exists and the video time is before landmarks[0].time, the distance used
\* is the route-projected distance of landmarks[0].
C5_PreTimeHold ==
    Placed /\ landmarks # <<>> /\ RLt(last.t, landmarks[1].time)
        => last.d = findNearestPointOnRoute(routeCoords, cumulativeDist,
                        <<landmarks[1].lat, landmarks[1].lon>>).dist

\* C6: when the loaded data has a startPosition, the marker shown once the
\* player is ready is at startPosition (or at its projection on the route).
C6_StartPositionFirst ==
    last.op = "onPlayerReady" /\ loadedData.startPosition # <<>>
        => LET sp == <<I(loadedData.startPosition[1].lat),
                       I(loadedData.startPosition[1].lon)>>
           IN  marker.pos \in
                 {sp, getPositionAtDistance(routeCoords, cumulativeDist,
                          findNearestDistanceOnRoute(routeCoords, cumulativeDist, sp))}

\* interpolateDistanceForTime(distanceToTime(d)) = d
RoundTrip(tp, d) ==
    LET r == interpolateDistanceForTime(tp, distanceToTime(tp, d))
    IN  ~r.thrown /\ r.val = d

StrictlyInside(tp, d) == RLt(tp[1].dist, d) /\ RLt(d, tp[Len(tp)].dist)

\* C7 as stated: with at least 2 anchors of strictly increasing distance, the
\* round trip gives d back for every d strictly between the first and the last
\* anchor's distance.
C7_RoundTripAsStated ==
    Len(timePoints) >= 2 /\ IncreasingDists(timePoints)
        => \A d \in QueryDists : StrictlyInside(timePoints, d) => RoundTrip(timePoints, d)

\* C7 (amended): with at least 2 anchors whose distances and whose times are
\* both strictly increasing, interpolateDistanceForTime(distanceToTime(d)) = d
\* for every d strictly between the first and the last anchor's distance.
C7_RoundTrip ==
    Len(timePoints) >= 2 /\ IncreasingDists(timePoints) /\ IncreasingTimes(timePoints)
        => \A d \in QueryDists : StrictlyInside(timePoints, d) => RoundTrip(timePoints, d)

\* C7 witness: a route click strictly inside the anchors' distances sought the
\* player to a time that maps back to the clicked distance
C7_Witness ==
    /\ last.op = "routeClick"
    /\ Len(timePoints) >= 2 /\ IncreasingDists(timePoints) /\ IncreasingTimes(timePoints)
    /\ StrictlyInside(timePoints, last.d)
    /\ last.t = distanceToTime(timePoints, last.d)
    /\ player.time = last.t
    /\ interpolateDistanceForTime(timePoints, last.t).val = last.d

\* the time that the linear interpolation by distance gives in pair k
TimeInPair(tp, k, d) ==
    RAdd(tp[k - 1].time,
         RMul(RDiv(RSub(d, tp[k - 1].dist), RSub(tp[k].dist, tp[k - 1].dist)),
              RSub(tp[k].time, tp[k - 1].time)))

\* C8: for a non-empty anchor set (a single anchor included; distances
\* strictly increasing, so that the three cases are well defined)
\* distanceToTime(d) is the first anchor's time for d below the first anchor's
\* distance, the last anchor's time for d above the last anchor's distance, and
\* otherwise the linear interpolation between the bracketing anchors.
C8_DistanceToTimeBoundary ==
    timePoints # <<>> /\ IncreasingDists(timePoints)
        => \A d \in QueryDists :
             LET tp == timePoints
                 t == distanceToTime(tp, d)
             IN  IF RLt(d, tp[1].dist) THEN t = tp[1].time
                 ELSE IF RGt(d, tp[Len(tp)].dist) THEN t = tp[Len(tp)].time
                 ELSE \/ Len(tp) = 1 /\ t = tp[1].time
                      \/ \E k \in 2..Len(tp) :
                            /\ RLe(tp[k - 1].dist, d) /\ RLe(d, tp[k].dist)
                            /\ t = TimeInPair(tp, k, d)

MinDist(tp) == CHOOSE x \in {tp[i].dist : i \in 1..Len(tp)} :
                   \A i \in 1..Len(tp) : RLe(x, tp[i].dist)
MaxDist(tp) == CHOOSE x \in {tp[i].dist : i \in 1..Len(tp)} :
                   \A i \in 1..Len(tp) : RGe(x, tp[i].dist)

\* the three parts of C9 at time t
ClampedAt(tp, t) ==
    LET r == interpolateDistanceForTime(tp, t)
    IN  /\ ~r.thrown
        /\ RLt(t, tp[1].time) => r.val = tp[1].dist
        /\ RGt(t, tp[Len(tp)].time) => r.val = tp[Len(tp)].dist
        /\ RLe(MinDist(tp), r.val) /\ RLe(r.val, MaxDist(tp))

\* C9: for a non-empty anchor set interpolateDistanceForTime(t) is the first
\* anchor's distance for every t before the first anchor's time, the last
\* anchor's distance for every t after the last anchor's time, and never
\* outside the anchors' distances.
C9_ClampOutsideAnchorTimes ==
    timePoints # <<>> => \A t \in QueryTimes : ClampedAt(timePoints, t)

\* the distance that the linear interpolation by time gives in pair k
DistInPair(tp, k, t) ==
    RAdd(tp[k - 1].dist,
         RMul(RDiv(RSub(t, tp[k - 1].time), RSub(tp[k].time, tp[k - 1].time)),
              RSub(tp[k].dist, tp[k - 1].dist)))

\* C10: for t strictly between the first and the last anchor's time,
\* interpolateDistanceForTime(t) = prev.dist + (t - prev.time) /
\* (next.time - prev.time) * (next.dist - prev.dist) for a pair of consecutive
\* anchors with prev.time <= t <= next.time (and next.time # prev.time).
C10_LinearBetweenAnchors ==
    \A t \in QueryTimes :
        timePoints # <<>> /\ RLt(timePoints[1].time, t)
                          /\ RLt(t, timePoints[Len(timePoints)].time)
        => LET r == interpolateDistanceForTime(timePoints, t)
           IN  /\ ~r.thrown
               /\ \E k \in 2..Len(timePoints) :
                     /\ RLe(timePoints[k - 1].time, t) /\ RLe(t, timePoints[k].time)
                     /\ timePoints[k - 1].time # timePoints[k].time
                     /\ r.val = DistInPair(timePoints, k, t)

\* C10 witness: a frame at the midpoint in time of two anchors placed the
\* marker at the midpoint of their distances (the scaled form of anchors
\* (0, 0) and (10, 100000) giving 50000 at t = 5)
C10_Witness ==
    /\ Placed /\ last.note = "interpolated"
    /\ Len(timePoints) = 2
    /\ timePoints[1].time = I(0) /\ timePoints[1].dist = I(0)
    /\ timePoints[2].time = I(2) /\ timePoints[2].dist = I(2)
    /\ last.t = I(1)
    /\ last.d = I(1)

\* the last entry of the cumulative distance table (0 before any load)
TotalRouteLength(cd) == IF cd = <<>> THEN I(0) ELSE cd[Len(cd)]

InRouteRange(cd, d) == RLe(I(0), d) /\ RLe(d, TotalRouteLength(cd))

\* C11: for every loaded route of at least one point, getPositionAtDistance(0)
\* is the first route point, getPositionAtDistance(totalRouteLength) is the
\* last route point, and so is getPositionAtDistance(d) for every d greater
\* than totalRouteLength.
C11_PositionAtRouteEnds ==
    routeCoords # <<>> =>
        /\ getPositionAtDistance(routeCoords, cumulativeDist, I(0)) = routeCoords[1]
        /\ getPositionAtDistance(routeCoords, cumulativeDist,
                                 TotalRouteLength(cumulativeDist))
             = routeCoords[Len(routeCoords)]
        /\ \A d \in QueryDists :
               RGt(d, TotalRouteLength(cumulativeDist))
               => getPositionAtDistance(routeCoords, cumulativeDist, d)
                    = routeCoords[Len(routeCoords)]

HasZeroLengthSegment(rc) == \E i \in 2..Len(rc) : rc[i - 1] = rc[i]

\* C12: for every query point and every loaded route, zero-length segments
\* included, the cumulative distance returned by findNearestDistanceOnRoute
\* and by findNearestPointOnRoute(..).dist lies in [0, totalRouteLength].
C12_ProjectionInRouteRange ==
    \A p \in ClickPoints :
        /\ InRouteRange(cumulativeDist,
               findNearestDistanceOnRoute(routeCoords, cumulativeDist, p))
        /\ InRouteRange(cumulativeDist,
               findNearestPointOnRoute(routeCoords, cumulativeDist, p).dist)

\* C12 witness: on a route of positive length with a zero-length segment, a
\* click was projected onto the route's very end
C12_Witness ==
    /\ last.op = "routeClick"
    /\ HasZeroLengthSegment(routeCoords)
    /\ RGt(TotalRouteLength(cumulativeDist), I(0))
    /\ last.d = TotalRouteLength(cumulativeDist)
    /\ marker.pos = routeCoords[Len(routeCoords)]

\* C13: every distance the engine stores or produces is in
\* [0, totalRouteLength]: each timePoints[i].dist, initialDist, and the
\* distance a syncMarker call passes to getPositionAtDistance.
C13_DistancesInRouteRange ==
    /\ \A i \in 1..Len(timePoints) : InRouteRange(cumulativeDist, timePoints[i].dist)
    /\ InRouteRange(cumulativeDist, initialDist)
    /\ Placed => InRouteRange(cumulativeDist, last.d)

\* C13 witness: a frame before the first anchor's time placed the marker at
\* the first anchor's distance, and the anchors span the whole route
C13_Witness ==
    /\ Placed /\ last.note = "interpolated"
    /\ Len(timePoints) = 2
    /\ RLt(last.t, timePoints[1].time)
    /\ last.d = timePoints[1].dist
    /\ timePoints[1].dist = I(0)
    /\ timePoints[2].dist = TotalRouteLength(cumulativeDist)
    /\ RGt(TotalRouteLength(cumulativeDist), I(0))

\* C14: after every load cumulativeDist starts with 0, is non-decreasing, and
\* has one entry per route point when the route has at least one point.
C14_CumulativeDistMonotone ==
    map # 0 =>
        /\ cumulativeDist # <<>> /\ cumulativeDist[1] = I(0)
        /\ \A i \in 2..Len(cumulativeDist) :
               RLe(cumulativeDist[i - 1], cumulativeDist[i])
        /\ routeCoords # <<>> => Len(cumulativeDist) = Len(routeCoords)

\* C14 witness: a loaded route of three points whose last segment has length
\* zero: the table rises, then stays
C14_Witness ==
    /\ map # 0
    /\ Len(routeCoords) = 3 /\ Len(cumulativeDist) = 3
    /\ RLt(cumulativeDist[1], cumulativeDist[2])
    /\ cumulativeDist[2] = cumulativeDist[3]
    /\ routeCoords[2] = routeCoords[3]

\* the anchors of the loaded file before the first-anchor override: mapped
\* with their projected distances and sorted by time
AnchorsBeforeOverride ==
    SortByTime(LinkedPoints(loadedData.linkedPoints, routeCoords, cumulativeDist))

\* the handler that ran last is a load that completed loadData
JustLoaded == last.op = "loadBtn" /\ last.note = "loaded"

\* timePoints is the list `before` with the first-anchor override applied
OverrideOf(before) ==
    /\ Len(timePoints) = Len(before)
    /\ IF landmarks # <<>> /\ timePoints # <<>>
       THEN /\ timePoints[1].time = landmarks[1].time
            /\ timePoints[1].dist =
                 findNearestPointOnRoute(routeCoords, cumulativeDist,
                     <<landmarks[1].lat, landmarks[1].lon>>).dist
            /\ \A i \in 2..Len(timePoints) : timePoints[i] = before[i]
       ELSE timePoints = before

\* C15: after a load with at least one landmark and at least one anchor,
\* timePoints[0].time is landmarks[0].time and timePoints[0].dist is the
\* route-projected distance of landmarks[0], and every other anchor keeps its
\* own time and projected distance; with no landmark or no anchor, no anchor
\* is altered.
C15_FirstAnchorOverride ==
    JustLoaded => OverrideOf(AnchorsBeforeOverride)

\* C15 witness: a load with a landmark and two anchors in which the override
\* changed both the time and the distance of the first anchor
C15_Witness ==
    /\ JustLoaded
    /\ landmarks # <<>> /\ Len(timePoints) = 2
    /\ timePoints[1].time = landmarks[1].time
    /\ timePoints[1].time # AnchorsBeforeOverride[1].time
    /\ timePoints[1].dist # AnchorsBeforeOverride[1].dist
    /\ timePoints[2] = AnchorsBeforeOverride[2]

\* |landmark.time - t| < 2
NearLandmark(lm, t) ==
    RLt(RSub(lm.time, t), I(2)) /\ RLt(RSub(t, lm.time), I(2))

\* the label box as C16 describes it after updateLabel(t)
LabelFor(lms, t, box) ==
    IF \E k \in 1..Len(lms) : NearLandmark(lms[k], t)
    THEN /\ box.opacity = 1
         /\ \E k \in 1..Len(lms) :
               /\ NearLandmark(lms[k], t)
               /\ \A j \in 1..(k - 1) : ~NearLandmark(lms[j], t)
               /\ box.innerText = lms[k].description
    ELSE box.opacity = 0

\* C16: after updateLabel(t) (in a syncMarker call that placed the marker, or
\* in onPlayerReady) the label is shown exactly when some landmark has
\* |landmark.time - t| < 2, with the description of the first such landmark in
\* array order; otherwise, and with no landmarks, it is hidden.
C16_LabelShownWithinThreshold ==
    /\ Placed => LabelFor(landmarks, last.t, labelDisplay)
    /\ last.op = "onPlayerReady" => LabelFor(landmarks, player.time, labelDisplay)

\* C16 witness: a frame at a time within the threshold of two landmarks
\* showed the description of the first one
C16_Witness ==
    /\ Placed
    /\ Len(landmarks) = 2
    /\ NearLandmark(landmarks[1], last.t) /\ NearLandmark(landmarks[2], last.t)
    /\ landmarks[1].description # landmarks[2].description
    /\ labelDisplay = [opacity |-> 1, innerText |-> landmarks[1].description]

\* C16 witness of the hidden case: a frame at a time exactly 2 from the only
\* candidate landmarks left the label hidden
C16_HiddenAtThreshold ==
    /\ Placed
    /\ landmarks # <<>>
    /\ RSub(landmarks[1].time, last.t) = I(2)
    /\ labelDisplay.opacity = 0

\* routeCoords[0]: the sole point of a one-point route, undefined for an
\* empty one
SolePoint(rc) == IF rc = <<>> THEN Undefined ELSE rc[1]

\* C17: on a loaded route of 0 or 1 points the projection queries return
\* distance 0 and the sole route point (no point for an empty route),
\* getPositionAtDistance returns the sole point, and no frame throws.
C17_DegenerateRoute ==
    map # 0 /\ Len(routeCoords) < 2 =>
        /\ \A p \in ClickPoints :
              /\ findNearestDistanceOnRoute(routeCoords, cumulativeDist, p) = I(0)
              /\ findNearestPointOnRoute(routeCoords, cumulativeDist, p)
                   = [point |-> SolePoint(routeCoords), dist |-> I(0)]
        /\ \A d \in QueryDists :
              getPositionAtDistance(routeCoords, cumulativeDist, d)
                = SolePoint(routeCoords)
        /\ \A i \in 1..Len(timePoints) : timePoints[i].dist = I(0)
        /\ last.op = "syncMarker" => last.note # "threw"

\* C17 witness: on a one-point route, whose anchors were projected to
\* distance 0, a frame placed the marker on the sole point
C17_Witness ==
    /\ Len(routeCoords) = 1
    /\ timePoints # <<>>
    /\ Placed
    /\ last.d = I(0)
    /\ marker.pos = routeCoords[1]

\* C18: syncMarker frames (updateLabel included), route clicks, the player's
\* ready and state-change events and the advance of the video leave
\* routeCoords, cumulativeDist, timePoints and landmarks unchanged: only a
\* load writes them.
C18_TablesReadOnly ==
    [][last'.op \in {"syncMarker", "routeClick", "onStateChange", "onPlayerReady",
                     "video"}
       => UNCHANGED tables]_vars

\* C18 witness: after the second load, a pause event arrived and the tables are
\* still those loadData built from the second file
C18_Witness ==
    /\ last.op = "onStateChange"
    /\ ~autoPanEnabled
    /\ map = 2
    /\ loadedData = FileB
    /\ tables = TablesOf(loadData(FileB))

\* the (squared) planar distance from p to the segment from a to b and the
\* fraction, in [0, 1], of its nearest point; a zero-length segment is the
\* point a
SegmentGap(p, a, b) ==
    IF a = b
    THEN [dist |-> RAdd(RMul(RSub(p[1], a[1]), RSub(p[1], a[1])),
                        RMul(RSub(p[2], a[2]), RSub(p[2], a[2]))),
          frac |-> I(0)]
    ELSE pointToSegmentDistance(p, a, b)

GapAt(rc, p, k) == SegmentGap(p, rc[k - 1], rc[k])

\* segment k (its end point is rc[k]) is the first in route order at the
\* minimum distance from p
FirstNearest(rc, p, k) ==
    /\ \A j \in 2..Len(rc) : RLe(GapAt(rc, p, k).dist, GapAt(rc, p, j).dist)
    /\ \A j \in 2..(k - 1) : RLt(GapAt(rc, p, k).dist, GapAt(rc, p, j).dist)

\* C19: on a route of at least two points the projection of every query point
\* returns cumulativeDist[i-1] + f * (cumulativeDist[i] - cumulativeDist[i-1])
\* for the first segment i in route order among those at the minimum planar
\* distance from the point, with f in [0, 1].
C19_FirstNearestSegmentWins ==
    Len(routeCoords) >= 2 =>
        \A p \in ClickPoints : \E k \in 2..Len(routeCoords) :
            /\ FirstNearest(routeCoords, p, k)
            /\ RLe(I(0), GapAt(routeCoords, p, k).frac)
            /\ RLe(GapAt(routeCoords, p, k).frac, I(1))
            /\ findNearestPointOnRoute(routeCoords, cumulativeDist, p).dist
                 = CumAt(cumulativeDist, k, GapAt(routeCoords, p, k).frac)
            /\ findNearestDistanceOnRoute(routeCoords, cumulativeDist, p)
                 = CumAt(cumulativeDist, k, GapAt(routeCoords, p, k).frac)

\* C19 witness: a click at a point equally near to two segments, at different
\* distances along the route, was projected onto the earlier one
C19_Witness ==
    /\ last.op = "routeClick"
    /\ Len(routeCoords) >= 3
    /\ \E p \in ClickPoints : \E k \in 2..Len(routeCoords) :
          /\ FirstNearest(routeCoords, p, k)
          /\ \E j \in (k + 1)..Len(routeCoords) :
                /\ GapAt(routeCoords, p, j).dist = GapAt(routeCoords, p, k).dist
                /\ RLt(CumAt(cumulativeDist, k, GapAt(routeCoords, p, k).frac),
                       CumAt(cumulativeDist, j, GapAt(routeCoords, p, j).frac))
          /\ findNearestPointOnRoute(routeCoords, cumulativeDist, p)
               = [point |-> marker.pos, dist |-> last.d]
          /\ last.d = CumAt(cumulativeDist, k, GapAt(routeCoords, p, k).frac)

\* C20: every syncMarker invocation schedules its successor, so the number of
\* queued callbacks never drops (an invocation in which the player's own
\* getCurrentTime fails is left aside).
C20_LoopKeepsPolling ==
    [][last'.op = "syncMarker" /\ last'.note # "getCurrentTime threw"
       => rafPending' >= rafPending]_vars

\* the point of the segment ending at rc[k] at fraction f
PointAtFraction(rc, k, f) ==
    <<RAdd(rc[k - 1][1], RMul(f, RSub(rc[k][1], rc[k - 1][1]))),
      RAdd(rc[k - 1][2], RMul(f, RSub(rc[k][2], rc[k - 1][2])))>>

\* the segment fraction of distance d in the segment ending at rc[k]
FractionInSegment(cd, k, d) == RDiv(RSub(d, cd[k - 1]), RSub(cd[k], cd[k - 1]))

\* C21: on a loaded route of at least two points, for every d in
\* [0, totalRouteLength], getPositionAtDistance(d) is the point of the first
\* segment whose end is at cumulative distance >= d, at the fraction
\* (d - cumulativeDist[i-1]) / (cumulativeDist[i] - cumulativeDist[i-1]), which
\* is well defined (the segment has positive length) and in [0, 1].
C21_PositionOnBracketingSegment ==
    Len(routeCoords) >= 2 =>
        \A d \in QueryDists :
            InRouteRange(cumulativeDist, d) =>
                \E k \in 2..Len(routeCoords) :
                    /\ RLe(d, cumulativeDist[k])
                    /\ \A j \in 2..(k - 1) : RLt(cumulativeDist[j], d)
                    /\ cumulativeDist[k] # cumulativeDist[k - 1]
                    /\ RLe(I(0), FractionInSegment(cumulativeDist, k, d))
                    /\ RLe(FractionInSegment(cumulativeDist, k, d), I(1))
                    /\ getPositionAtDistance(routeCoords, cumulativeDist, d)
                         = PointAtFraction(routeCoords, k,
                               FractionInSegment(cumulativeDist, k, d))

\* C22: after every load followed by player ready, the second and later loads
\* of a page session included, the position marker is attached to the map
\* that load's initMap created.
C22_MarkerOnDisplayedMap ==
    last.op = "onPlayerReady" => marker.exists /\ marker.map = map

MinTime(tp) == CHOOSE x \in {tp[i].time : i \in 1..Len(tp)} :
                   \A i \in 1..Len(tp) : RLe(x, tp[i].time)
MaxTimeOf(tp) == CHOOSE x \in {tp[i].time : i \in 1..Len(tp)} :
                     \A i \in 1..Len(tp) : RGe(x, tp[i].time)

\* the pair the scan of distanceToTime selects for d, if any, has different
\* distances
DistancePairSound(tp, k) == k # 0 => tp[k].dist # tp[k - 1].dist

\* C23: with at least 2 anchors loaded, for every d the pair (prev, next)
\* that distanceToTime selects has next.dist # prev.dist, and every route
\* click seeks the player to a finite time between the smallest and the
\* largest anchor time.
C23_DistanceToTimeWellDefined ==
    Len(timePoints) >= 2 =>
        /\ \A d \in QueryDists : DistancePairSound(timePoints, DistanceScan(timePoints, d, 2))
        /\ last.op = "routeClick" =>
              /\ IsFinite(last.t)
              /\ RLe(MinTime(timePoints), last.t)
              /\ RLe(last.t, MaxTimeOf(timePoints))

\* the scan of interpolateDistanceForTime is reached for t: at least two
\* anchors, and t neither at or before the first anchor's time nor at or after
\* the last anchor's
ScanReached(tp, t) ==
    /\ Len(tp) >= 2
    /\ ~RLe(t, tp[1].time)
    /\ ~RGe(t, tp[Len(tp)].time)

\* the pair the scan of interpolateDistanceForTime selects for t, if any, has
\* different times
TimePairSound(tp, k) == k # 0 => tp[k].time # tp[k - 1].time

\* C24: for the anchors loadData produced (sorted by time, the first time
\* possibly overwritten, times possibly repeated) and every t, the pair the
\* scan of interpolateDistanceForTime selects has next.time # prev.time, and
\* the distance returned is a finite number.
C24_InterpolationWellDefined ==
    \A t \in QueryTimes :
        /\ ScanReached(timePoints, t) => TimePairSound(timePoints, TimeScan(timePoints, t, 2))
        /\ timePoints # <<>> => IsFinite(interpolateDistanceForTime(timePoints, t).val)

\* C24 witness: with repeated anchor times, and a first anchor whose
\* overwritten time is later than the second anchor's, a frame interpolated in
\* a pair that is not the first one
C24_Witness ==
    /\ Placed /\ last.note = "interpolated"
    /\ Len(timePoints) = 4
    /\ RGt(timePoints[1].time, timePoints[2].time)
    /\ timePoints[2].time = timePoints[3].time
    /\ ScanReached(timePoints, last.t)
    /\ TimeScan(timePoints, last.t, 2) = 4
    /\ last.d = DistInPair(timePoints, 4, last.t)

\* C25: with landmarks and anchors both non-empty, once the loaded video's
\* player is ready initialDist is the first anchor's distance, and for every
\* time before landmarks[0].time the distance a frame holds is the distance
\* interpolateDistanceForTime returns for that time, so that the marker does
\* not jump when the video time crosses landmarks[0].time.
C25_HoldMatchesInterpolation ==
    player.ready /\ landmarks # <<>> /\ timePoints # <<>> =>
        /\ initialDist = timePoints[1].dist
        /\ \A t \in QueryTimes :
              RLt(t, landmarks[1].time) =>
                  FrameDistance(timePoints, landmarks, initialDist, t).val
                      = interpolateDistanceForTime(timePoints, t).val
        /\ Placed /\ RLt(last.t, landmarks[1].time) =>
              last.d = interpolateDistanceForTime(timePoints, last.t).val

\* C25 witness: a frame held before the first landmark's time, after a load
\* whose startPosition projects to another distance than the first landmark
C25_Witness ==
    /\ player.ready /\ Placed /\ last.note = "held"
    /\ landmarks # <<>> /\ timePoints # <<>>
    /\ loadedData.startPosition # <<>>
    /\ last.d = initialDist
    /\ last.d # findNearestDistanceOnRoute(routeCoords, cumulativeDist,
                    <<I(loadedData.startPosition[1].lat),
                      I(loadedData.startPosition[1].lon)>>)

\* the outcome of the loop of findNearestPointOnRoute for p
PointScanOf(rc, cd, p) ==
    NearestPointScan(rc, cd, p, 2,
        [nearestDist |-> PInf,
         bestPoint |-> IF rc = <<>> THEN Undefined ELSE rc[1],
         bestCumDist |-> I(0)])

\* segment k is the one the loop selected for p: the helper's point and
\* distance are those of segment k at the clamped fraction of p's projection
SelectedSegment(rc, cd, p, k, r) ==
    LET d == pointToSegmentDistance(p, rc[k - 1], rc[k])
    IN  /\ d.dist = PointScanOf(rc, cd, p).nearestDist
        /\ RLe(I(0), d.frac) /\ RLe(d.frac, I(1))
        /\ r.point = PointAtFraction(rc, k, d.frac)
        /\ r.dist = CumAt(cd, k, d.frac)

\* C26: for every query point and every loaded route,
\* findNearestDistanceOnRoute(p) = findNearestPointOnRoute(p).dist, and
\* findNearestPointOnRoute(p).point is the point of the selected segment at the
\* clamped fraction that gives the distance (the first route point, at
\* distance 0, when the loop selects no segment).
C26_ProjectionHelpersAgree ==
    \A p \in ClickPoints :
        LET r == findNearestPointOnRoute(routeCoords, cumulativeDist, p)
        IN  /\ findNearestDistanceOnRoute(routeCoords, cumulativeDist, p) = r.dist
            /\ IF PointScanOf(routeCoords, cumulativeDist, p).nearestDist = PInf
               THEN /\ r.dist = I(0)
                    /\ routeCoords # <<>> => r.point = routeCoords[1]
               ELSE \E k \in 2..Len(routeCoords) :
                        SelectedSegment(routeCoords, cumulativeDist, p, k, r)

\* C26 witness: a click off a three-point route was projected onto its second
\* segment, and the marker and the distance sought are the two helpers' results
C26_Witness ==
    /\ last.op = "routeClick"
    /\ Len(routeCoords) = 3
    /\ RGt(last.d, cumulativeDist[2])
    /\ \E p \in ClickPoints :
          /\ RGt(PointScanOf(routeCoords, cumulativeDist, p).nearestDist, I(0))
          /\ findNearestPointOnRoute(routeCoords, cumulativeDist, p)
               = [point |-> marker.pos, dist |-> last.d]
          /\ findNearestDistanceOnRoute(routeCoords, cumulativeDist, p) = last.d
          /\ SelectedSegment(routeCoords, cumulativeDist, p, 3,
                             [point |-> marker.pos, dist |-> last.d])

\* C27: a load attempt that ends before loadData runs (no file selected, an
\* empty video ID, or file text on which JSON.parse throws) leaves
\* routeCoords, cumulativeDist, timePoints, landmarks, the map and the player
\* as they were: neither the click (up to the read of the file) nor the step
\* in which the attempt ends changes them.
C27_FailedLoadChangesNothing ==
    [][last'.op = "loadBtn"
         /\ last'.note \in {"no file", "no video id", "reading", "JSON.parse threw"}
       => UNCHANGED <<tables, map, player>>]_vars

\* C27 witness: after a completed load of FileA and its player's ready event,
\* a second load attempt ended in JSON.parse throwing
C27_Witness ==
    /\ last.op = "loadBtn" /\ last.note = "JSON.parse threw"
    /\ loads = 2
    /\ map = 1
    /\ player.id = 1 /\ player.ready
    /\ loadedData = FileA
    /\ tables = TablesOf(loadData(FileA))

\* C28: under every interleaving of start and stop clicks with the
\* getDisplayMedia prompts, at most one MediaRecorder is recording at a time,
\* and every chunk in recordedChunks was appended by the recorder
\* stopScreenRecording stops (the current mediaRecorder).
C28_OneRecorder ==
    /\ Cardinality(Recording) <= 1
    /\ \A i \in DOMAIN recordedChunks : recordedChunks[i] = mediaRecorder

\* the waypoint list, the temporary markers on the map and the waypoints
\* given to the routing control fit together
RoutingSound(wps, temps, onMap, control) ==
    /\ Len(wps) <= 2
    /\ onMap = BagOfSeq(temps)
    /\ (onMap # EmptyBag) <=> (Len(wps) = 1)
    /\ Len(wps) = 1 => onMap = SetToBag({wps[1]})
    /\ (control # <<>>) <=> (Len(wps) = 2)
    /\ Len(wps) = 2 => control = wps

\* C29: after every right-click and every Clear-All click routingWaypoints has
\* at most 2 entries, a temporary start marker is on the map exactly when it
\* has 1 entry, and the routing control holds waypoints exactly when it has 2
\* (then these two); a right-click when 2 waypoints are set leaves the clicked
\* point as the only waypoint.  (The initial state has no waypoint, no marker
\* and an empty control.)
C29_RoutingWaypoints ==
    [][/\ RoutingSound(routingWaypoints', tempMarkers', mapMarkers', controlWaypoints')
       /\ \A latlng \in LatLngs :
             Len(routingWaypoints) = 2 /\ addRoutingWaypoint(latlng)
                 => routingWaypoints' = <<latlng>>]_vars

\* C29 witness: a route was found for two waypoints, and a right-click since
\* then (no Clear-All, which forgets the route) left a single new start, with
\* its temporary marker on the map and the routing control emptied
C29_Witness ==
    /\ lastRoute # <<>>
    /\ Len(routingWaypoints) = 1
    /\ routingWaypoints[1] # lastRoute[1]
    /\ mapMarkers = SetToBag({routingWaypoints[1]})
    /\ controlWaypoints = <<>>

=============================================================================
